---- MODULE Spec2Model ----
(***************************************************************************)
(* A model of the mesh ingestion pipeline of src/main.js: the OBJ and MTL   *)
(* parsers (parseOBJ, parseMTL, loadMTL, loadOBJ), the fetches loadOBJ      *)
(* awaits, and the part of main that consumes the mesh.                     *)
(*                                                                          *)
(* One function is entered per behaviour (variable entry): main (which      *)
(* runs loadOBJ and, inside it, loadMTL), parseOBJ, loadMTL called on its   *)
(* own, or parseMTL.  A parser's loop over the lines of its text is one     *)
(* action per line; the line is drawn from a bounded set of lines.          *)
(***************************************************************************)
EXTENDS Integers, Sequences, FiniteSets, TLC

VARIABLES
    entry,            \* the function the behaviour runs
    objFetch,         \* fetch(objUrl): "idle", "pending", "resolved", "rejected"
    mtlPc,            \* loadMTL: "idle","fetching","readingText","parsing","resolved","rejected"
    loadPc,           \* loadOBJ: "idle","awaitAll","readingText","parsing","returned","failed"
    mainPc,           \* main: "idle","awaitLoad","rendering","failed"
    line,             \* the line the running parser's loop read last
    lineCount,        \* the v lines and the f lines the OBJ parser's loop has read
    objKind,          \* what model.obj holds: "mesh" or "groups" ("" before it is read)
    positions,        \* loadOBJ: positions
    indices,          \* loadOBJ: indices
    materialIndices,  \* loadOBJ: materialIndices
    materialGroups,   \* loadOBJ: materialGroups
    tempNormals,      \* loadOBJ: tempNormals
    currentMaterial,  \* loadOBJ: currentMaterial
    normalArray,      \* loadOBJ: normalArray
    mtlResponse,      \* loadOBJ: mtlResponse (what Promise.all gave for loadMTL)
    materials,        \* loadMTL / parseMTL: materials
    mtlCurrent,       \* loadMTL / parseMTL: currentMaterial
    mtlLines,         \* the MTL lines consumed so far, in order
    parsed,           \* parseOBJ: its arrays
    parsePc,          \* parseOBJ / parseMTL: "idle", "parsing", "returned"
    buffers,          \* main: createBuffers has run
    frames,           \* main: calls of render so far
    isDragging,       \* camera: isDragging
    lastMouseX,       \* camera: lastMouseX, in pixels
    lastMouseY,       \* camera: lastMouseY, in pixels
    rotationX,        \* camera: rotationX, as [b, n] (see the camera part)
    rotationY,        \* camera: rotationY, in units of rotationSpeed
    zoomLevel,        \* camera: zoomLevel
    autoRotate,       \* camera: autoRotate
    event             \* the type of the event the canvas dispatched last

vars == <<entry, objFetch, mtlPc, loadPc, mainPc, line, lineCount, objKind, positions,
          indices,
          materialIndices, materialGroups, tempNormals, currentMaterial,
          normalArray, mtlResponse, materials, mtlCurrent, mtlLines, parsed,
          parsePc, buffers, frames, isDragging, lastMouseX, lastMouseY,
          rotationX, rotationY, zoomLevel, autoRotate, event>>

(***************************************************************************)
(* Bounds of the model.                                                     *)
(***************************************************************************)
\* v lines one text holds at most
MaxVertexLines == 3
\* f lines one text holds at most
MaxFaceLines == 2
\* lines one MTL text holds at most
MaxMtlLines == 3
\* render calls followed
MaxFrames == 2
\* the drags followed keep |rotationY| within this many units of rotationSpeed
MaxRotationY == 600

(***************************************************************************)
(* JavaScript numbers: a finite rational n/d (in lowest terms, d > 0), NaN, *)
(* +Infinity or -Infinity.  The sign of zero is not kept.  A read of an     *)
(* array slot that does not exist gives undefined, which every arithmetic   *)
(* use in this code converts to NaN.                                        *)
(***************************************************************************)
RECURSIVE Gcd(_, _)
Gcd(a, b) == IF b = 0 THEN a ELSE Gcd(b, a % b)

Abs(x) == IF x < 0 THEN -x ELSE x

NaN == [k |-> "nan", n |-> 0, d |-> 1]
PInf == [k |-> "pinf", n |-> 0, d |-> 1]
NInf == [k |-> "ninf", n |-> 0, d |-> 1]

Frac(n, d) ==
    LET g == Gcd(Abs(n), Abs(d))
        s == IF d < 0 THEN -1 ELSE 1
    IN  [k |-> "fin", n |-> (s * n) \div g, d |-> (s * d) \div g]

Num(n) == [k |-> "fin", n |-> n, d |-> 1]

IsNaN(a) == a.k = "nan"
IsFin(a) == a.k = "fin"
IsZero(a) == a.k = "fin" /\ a.n = 0
\* -1, 0 or 1 for a number that is not NaN
Sign(a) ==
    CASE a.k = "pinf" -> 1
      [] a.k = "ninf" -> -1
      [] OTHER -> IF a.n > 0 THEN 1 ELSE IF a.n < 0 THEN -1 ELSE 0

Neg(a) ==
    CASE a.k = "nan" -> NaN
      [] a.k = "pinf" -> NInf
      [] a.k = "ninf" -> PInf
      [] OTHER -> Frac(-a.n, a.d)

JsAdd(a, b) ==
    CASE IsNaN(a) \/ IsNaN(b) -> NaN
      [] IsFin(a) /\ IsFin(b) -> Frac(a.n * b.d + b.n * a.d, a.d * b.d)
      [] IsFin(a) -> b
      [] IsFin(b) -> a
      [] OTHER -> IF a.k = b.k THEN a ELSE NaN

JsSub(a, b) == JsAdd(a, Neg(b))

JsMul(a, b) ==
    CASE IsNaN(a) \/ IsNaN(b) -> NaN
      [] IsFin(a) /\ IsFin(b) -> Frac(a.n * b.n, a.d * b.d)
      [] IsZero(a) \/ IsZero(b) -> NaN
      [] OTHER -> IF Sign(a) * Sign(b) > 0 THEN PInf ELSE NInf

JsDiv(a, b) ==
    CASE IsNaN(a) \/ IsNaN(b) -> NaN
      [] IsFin(a) /\ IsFin(b) ->
            IF b.n # 0 THEN Frac(a.n * b.d, a.d * b.n)
            ELSE IF a.n = 0 THEN NaN
            ELSE IF a.n > 0 THEN PInf ELSE NInf
      [] IsFin(b) -> IF Sign(a) * (IF Sign(b) < 0 THEN -1 ELSE 1) > 0 THEN PInf ELSE NInf
      [] IsFin(a) -> Num(0)
      [] OTHER -> NaN

\* a < b for numbers that are not NaN
JsLess(a, b) ==
    CASE a.k = "ninf" -> b.k # "ninf"
      [] a.k = "pinf" -> FALSE
      [] b.k = "pinf" -> TRUE
      [] b.k = "ninf" -> FALSE
      [] OTHER -> a.n * b.d < b.n * a.d

MathMin(a, b) ==
    IF IsNaN(a) \/ IsNaN(b) THEN NaN ELSE IF JsLess(b, a) THEN b ELSE a

MathMax(a, b) ==
    IF IsNaN(a) \/ IsNaN(b) THEN NaN ELSE IF JsLess(a, b) THEN b ELSE a

\* array[i] of a JavaScript array of numbers (0-based), used as a number
Get(array, i) == IF i >= 0 /\ i < Len(array) THEN array[i + 1] ELSE NaN

(***************************************************************************)
(* Lines.  line.trim().split(/\s+/) gives parts; a line is modelled by its  *)
(* parts: prefix is parts[0]; name is parts[1] of a usemtl or newmtl line   *)
(* ("" when the line holds no such token); args are the numeric tokens      *)
(* after the prefix, each given by the number parseFloat reads from it;     *)
(* refs are the tokens of an f line, each the list of the 1-based integers  *)
(* between its slashes.                                                     *)
(***************************************************************************)
Line(prefix, name, args, refs) ==
    [prefix |-> prefix, name |-> name, args |-> args, refs |-> refs]

NoLine == Line("", "", <<>>, <<>>)

\* The coordinates of the k-th v line of a text (k = 1, 2, ...).
VertexPool == << <<0, 0, 0>>, <<1, 0, 0>>, <<0, 1, 0>>, <<0, 0, 1>>, <<1, 1, 1>> >>

\* The v lines a text may hold as its k-th: the pool's point, or the same
\* with its last token missing.
VertexLines(k) ==
    LET p == VertexPool[((k - 1) % Len(VertexPool)) + 1]
    IN  { Line("v", "", p, <<>>),
          Line("v", "", SubSeq(p, 1, 2), <<>>) }

FaceLines ==
    { Line("f", "", <<>>, << <<1>>, <<2>>, <<3>> >>),
      Line("f", "", <<>>, << <<3>>, <<2>>, <<1>> >>),
      Line("f", "", <<>>, << <<1>>, <<2>> >>),
      Line("f", "", <<>>, << <<1>>, <<2>>, <<3>>, <<4>> >>) }

\* The f lines of the texts parseOBJ is followed on: some with texture and
\* normal indices, which only parseOBJ reads.
ParseOBJFaceLines ==
    { Line("f", "", <<>>, << <<1>>, <<2>>, <<3>> >>),
      Line("f", "", <<>>, << <<1>>, <<2>> >>),
      Line("f", "", <<>>, << <<1, 1, 1>>, <<2, 2, 1>>, <<3, 3, 1>> >>),
      Line("f", "", <<>>, << <<1, 2>>, <<2, 1>>, <<3, 3>>, <<4, 4>> >>) }

\* Material names; none is the name of a property every object inherits
\* (such as constructor), for which materialGroups[name] is never missing.
MaterialNames == {"A", "B"}

UsemtlLines == { Line("usemtl", n, <<>>, <<>>) : n \in MaterialNames }

\* The texts of model.obj that are followed are of three kinds: a mesh holds
\* v lines of three numbers, f lines and usemtl lines of one material; a
\* ragged text holds v lines of two or three numbers and triangles; groups
\* hold f lines and usemtl lines of every material, and no v line.
ObjKinds == {"mesh", "ragged", "groups"}

\* the v lines of a mesh
ProperVertexLines(k) == { ln \in VertexLines(k) : Len(ln.args) = 3 }

RaggedFaceLines == { Line("f", "", <<>>, << <<1>>, <<2>>, <<3>> >>) }

MeshUsemtlLines == { Line("usemtl", "A", <<>>, <<>>) }

\* lines whose prefix no case of loadOBJ's switch names: vn, vt, a comment,
\* a blank line (parts[0] = "")
OtherObjLines ==
    { Line("vn", "", <<0, 0, 1>>, <<>>),
      Line("#", "", <<>>, <<>>),
      Line("", "", <<>>, <<>>) }

\* parseFloat(parts[i]) for i >= 1: NaN when the line has no such token
ParseFloatAt(args, i) == IF i <= Len(args) THEN Num(args[i]) ELSE NaN

\* parts.slice(1).map(parseFloat)
MapParseFloat(args) == [i \in 1..Len(args) |-> Num(args[i])]

\* The value currentMaterial holds before any usemtl / newmtl: null.
Null == "null"

\* parts[1] as a property key: a missing token is undefined, which as a key
\* reads "undefined".
NameKey(name) == IF name = "" THEN "undefined" ELSE name

(***************************************************************************)
(* loadOBJ: the cases of the switch over parts[0].                          *)
(***************************************************************************)
\* case "v" (line 581)
PushPosition(pos, args) == pos \o MapParseFloat(args)

\* A usemtl line that opens its group anew every time it names it.
OpenGroupAnew(groups, key, indexLength) ==
    [k \in DOMAIN groups \cup {key} |->
        IF k = key THEN [startIndex |-> indexLength, indexCount |-> 0]
        ELSE groups[k]]

\* case "usemtl" (lines 584-590): the group is made when the name has none
OpenGroup(groups, key, indexLength) ==
    IF key \in DOMAIN groups
    THEN groups
    ELSE groups @@ (key :> [startIndex |-> indexLength, indexCount |-> 0])

\* line 593: parseInt(v.split("/")[0]) - 1 over the tokens of the f line
FaceVertices(refs) == [i \in 1..Len(refs) |-> refs[i][1] - 1]

\* lines 596-611: Newell's sums over the vertex pairs (i, i+1 mod length),
\* from pair i on; acc is <<nx, ny, nz>>
RECURSIVE Newell(_, _, _, _)
Newell(pos, fv, i, acc) ==
    IF i >= Len(fv) THEN acc
    ELSE LET v1 == fv[i + 1]
             v2 == fv[((i + 1) % Len(fv)) + 1]
             x1 == Get(pos, v1 * 3)
             y1 == Get(pos, v1 * 3 + 1)
             z1 == Get(pos, v1 * 3 + 2)
             x2 == Get(pos, v2 * 3)
             y2 == Get(pos, v2 * 3 + 1)
             z2 == Get(pos, v2 * 3 + 2)
         IN  Newell(pos, fv, i + 1,
                 << JsAdd(acc[1], JsMul(JsSub(y1, y2), JsAdd(z1, z2))),
                    JsAdd(acc[2], JsMul(JsSub(z1, z2), JsAdd(x1, x2))),
                    JsAdd(acc[3], JsMul(JsSub(x1, x2), JsAdd(y1, y2))) >>)

\* Math.sqrt(x*x + y*y + z*z) > 0: false when a component is NaN
LengthPositive(vec) ==
    /\ \A c \in 1..3 : ~IsNaN(vec[c])
    /\ \E c \in 1..3 : ~IsZero(vec[c])

\* lines 613-618: the face normal is the vector raw, divided by its length
\* when unit is TRUE (the length is positive) and left as it is otherwise
NormalizeFace(raw) == [v |-> raw, unit |-> LengthPositive(raw)]

FaceNormal(pos, fv) == NormalizeFace(Newell(pos, fv, 0, <<Num(0), Num(0), Num(0)>>))

\* lines 620-628: the accumulator of a vertex is the sum of the face normals
\* added to it, kept as the list of its terms ([0, 0, 0] is the empty list)
RECURSIVE Accumulate(_, _, _, _)
Accumulate(temp, fv, i, fn) ==
    IF i > Len(fv) THEN temp
    ELSE LET vertex == fv[i]
             old == IF vertex \in DOMAIN temp THEN temp[vertex] ELSE <<>>
             new == Append(old, fn)
         IN  Accumulate(
                 IF vertex \in DOMAIN temp
                 THEN [temp EXCEPT ![vertex] = new]
                 ELSE temp @@ (vertex :> new),
                 fv, i + 1, fn)

\* A triangulation by strips, not by a fan: (vi-1, vi, vi+1).
RECURSIVE TriangulateStrip(_, _)
TriangulateStrip(fv, i) ==
    IF i < Len(fv) - 1
    THEN <<fv[i], fv[i + 1], fv[i + 2]>> \o TriangulateStrip(fv, i + 1)
    ELSE <<>>

\* lines 631-632: the triangles pushed by the loop from i on
RECURSIVE Triangulate(_, _)
Triangulate(fv, i) ==
    IF i < Len(fv) - 1
    THEN <<fv[1], fv[i + 1], fv[i + 2]>> \o Triangulate(fv, i + 1)
    ELSE <<>>

\* lines 636-638, over the whole loop: 3 more for each triangle pushed
CountGroup(groups, current, pushed) ==
    IF NameKey(current) \in DOMAIN groups
    THEN [groups EXCEPT ![NameKey(current)].indexCount = @ + pushed]
    ELSE groups

(***************************************************************************)
(* loadOBJ after the loop: the vertex normals (lines 644-655).              *)
(*                                                                          *)
(* A sum of face normals is a list of terms [v, unit]; a term stands for    *)
(* the vector v when unit is FALSE and for v / |v| when it is TRUE.  With   *)
(* |v|^2 = s^2 * q and q squarefree, v / |v| = (v / s) / sqrt(q); the       *)
(* square roots of distinct squarefree numbers are linearly independent     *)
(* over the rationals, so a sum is the zero vector exactly when, for each   *)
(* q, the rational vectors v / s of its terms add up to zero.  (Within the  *)
(* bounds the only cancelling terms are a face normal and its negation,     *)
(* which cancel in floating point as well.)                                 *)
(***************************************************************************)
\* |v|^2 of a vector of integers
Norm2(v) == v[1].n * v[1].n + v[2].n * v[2].n + v[3].n * v[3].n

\* the largest s with s * s dividing m (m >= 1)
SquarePart(m) ==
    CHOOSE s \in 1..m :
        /\ m % (s * s) = 0
        /\ \A t \in (s + 1)..m : m % (t * t) # 0

TermS(t) == IF t.unit THEN SquarePart(Norm2(t.v)) ELSE 1
TermQ(t) == IF t.unit THEN Norm2(t.v) \div (TermS(t) * TermS(t)) ELSE 1

RECURSIVE ProductS(_, _)
ProductS(sum, i) == IF i > Len(sum) THEN 1 ELSE TermS(sum[i]) * ProductS(sum, i + 1)

\* component c of the terms of class q, scaled by the common multiple K
RECURSIVE ClassSum(_, _, _, _, _)
ClassSum(sum, q, c, K, i) ==
    IF i > Len(sum) THEN 0
    ELSE (IF TermQ(sum[i]) = q THEN sum[i].v[c].n * (K \div TermS(sum[i])) ELSE 0)
         + ClassSum(sum, q, c, K, i + 1)

\* a component of the sum is NaN
SumHasNaN(sum) == \E i \in 1..Len(sum) : \E c \in 1..3 : IsNaN(sum[i].v[c])

\* the sum is the vector [0, 0, 0]
SumIsZero(sum) ==
    /\ ~SumHasNaN(sum)
    /\ LET K == ProductS(sum, 1)
       IN  \A i \in 1..Len(sum) : \A c \in 1..3 :
               ClassSum(sum, TermQ(sum[i]), c, K, 1) = 0

\* line 647: tempNormals.get(i) || [0, 0, 1]; an array is never falsy
Fallback == << [v |-> <<Num(0), Num(0), Num(1)>>, unit |-> FALSE] >>

LookupNormal(temp, i) == IF i \in DOMAIN temp THEN temp[i] ELSE Fallback

\* lines 648-653: the normal is its sum, divided by its length when unit
NormalizeVertex(sum) == [sum |-> sum, unit |-> ~SumHasNaN(sum) /\ ~SumIsZero(sum)]

\* line 654: normalArray.push(...normal), the three components of normal
Spread(normal) == [c \in 1..3 |-> [of |-> normal, axis |-> c]]

\* the number of i = 0, 1, ... with i < length / 3, which is also the number
\* of i = 0, 3, ... with i < length
VertexCount(length) == (length + 2) \div 3

\* lines 645-655
RECURSIVE BuildNormals(_, _, _)
BuildNormals(pos, temp, i) ==
    IF i < VertexCount(Len(pos))
    THEN Spread(NormalizeVertex(LookupNormal(temp, i))) \o BuildNormals(pos, temp, i + 1)
    ELSE <<>>

(***************************************************************************)
(* loadOBJ after the loop: center and scale (lines 657-682).                *)
(***************************************************************************)
\* lines 661-668 for one axis (0, 1, 2): the minimum, from vertex i on
RECURSIVE MinOf(_, _, _, _)
MinOf(pos, axis, i, acc) ==
    IF i < Len(pos)
    THEN MinOf(pos, axis, i + 3, MathMin(acc, Get(pos, i + axis)))
    ELSE acc

RECURSIVE MaxOf(_, _, _, _)
MaxOf(pos, axis, i, acc) ==
    IF i < Len(pos)
    THEN MaxOf(pos, axis, i + 3, MathMax(acc, Get(pos, i + axis)))
    ELSE acc

MinAxis(pos, axis) == MinOf(pos, axis, 0, PInf)
MaxAxis(pos, axis) == MaxOf(pos, axis, 0, NInf)

\* lines 670-674
Center(pos, axis) == JsDiv(JsAdd(MinAxis(pos, axis), MaxAxis(pos, axis)), Num(2))

Extent(pos, axis) == JsSub(MaxAxis(pos, axis), MinAxis(pos, axis))

\* line 676
Scale(pos) ==
    JsDiv(Num(2), MathMax(MathMax(Extent(pos, 0), Extent(pos, 1)), Extent(pos, 2)))

\* A rescaling that writes the slots the array has, and no other.
RescaleExisting(pos) ==
    [j \in 1..Len(pos) |->
        JsMul(JsSub(Get(pos, j - 1), Center(pos, (j - 1) % 3)), Scale(pos))]

\* lines 678-682: every round of the loop writes the slots i, i + 1, i + 2,
\* which lengthens the array when the last vertex lacks components
Rescale(pos) ==
    [j \in 1..(3 * VertexCount(Len(pos))) |->
        JsMul(JsSub(Get(pos, j - 1), Center(pos, (j - 1) % 3)), Scale(pos))]

(***************************************************************************)
(* MTL: loadMTL (lines 516-557) and parseMTL (lines 138-189).               *)
(***************************************************************************)
\* The value of a property no line has set (refractionIndex of loadMTL).
Undefined == [k |-> "undef", n |-> 0, d |-> 1]

MtlNameLines ==
    { Line("newmtl", n, <<>>, <<>>) : n \in MaterialNames \cup {""} }

MtlPropertyLines ==
    { Line("Ka", "", <<0, 0, 0>>, <<>>),
      Line("Kd", "", <<1, 0, 0>>, <<>>),
      Line("Kd", "", <<0, 1, 0, 1>>, <<>>),
      Line("Ks", "", <<1, 1, 1>>, <<>>),
      Line("Ns", "", <<10>>, <<>>),
      Line("Ns", "", <<>>, <<>>),
      Line("Ni", "", <<2>>, <<>>),
      Line("d", "", <<0>>, <<>>) }

\* lines no case of loadMTL's switch names; parseMTL has a case for each
OtherMtlLines ==
    { Line("Ke", "", <<1, 1, 1>>, <<>>),
      Line("illum", "", <<1>>, <<>>),
      Line("", "", <<>>, <<>>) }

MtlLines == MtlNameLines \cup MtlPropertyLines \cup OtherMtlLines

\* The lines of model.mtl when main runs.  The mesh parser never reads the
\* materials, so loadMTL is followed there only as far as it takes to return
\* or to throw: its text holds no newmtl line.
MainMtlLines ==
    { Line("", "", <<>>, <<>>), Line("Kd", "", <<1, 0, 0>>, <<>>) }

\* lines 527-533
LoadMTLDefaults ==
    [ ambient |-> <<Num(1), Num(1), Num(1)>>,
      diffuse |-> <<Frac(8, 10), Frac(8, 10), Frac(8, 10)>>,
      specular |-> <<Frac(5, 10), Frac(5, 10), Frac(5, 10)>>,
      shininess |-> Num(32),
      opacity |-> Num(1),
      refractionIndex |-> Undefined ]

\* loadMTL's cases that write materials[currentMaterial].<field>
LoadMTLPropertyPrefixes == {"Ka", "Kd", "Ks", "Ns", "Ni", "d"}

\* materials[currentMaterial] is undefined, and setting a property of
\* undefined throws a TypeError
LoadMTLThrows(mats, cur, ln) ==
    ln.prefix \in LoadMTLPropertyPrefixes /\ cur \notin DOMAIN mats

\* the record of the current material after a property line (lines 535-552)
LoadMTLSetField(rec, ln) ==
    CASE ln.prefix = "Ka" -> [rec EXCEPT !.ambient = MapParseFloat(ln.args)]
      [] ln.prefix = "Kd" -> [rec EXCEPT !.diffuse = MapParseFloat(ln.args)]
      [] ln.prefix = "Ks" -> [rec EXCEPT !.specular = MapParseFloat(ln.args)]
      [] ln.prefix = "Ns" -> [rec EXCEPT !.shininess = ParseFloatAt(ln.args, 1)]
      [] ln.prefix = "Ni" -> [rec EXCEPT !.refractionIndex = ParseFloatAt(ln.args, 1)]
      [] ln.prefix = "d" -> [rec EXCEPT !.opacity = ParseFloatAt(ln.args, 1)]
      [] OTHER -> rec

\* materials after one line that does not throw (lines 524-553)
LoadMTLMaterials(mats, cur, ln) ==
    CASE ln.prefix = "newmtl" ->
            [k \in DOMAIN mats \cup {NameKey(ln.name)} |->
                IF k = NameKey(ln.name) THEN LoadMTLDefaults ELSE mats[k]]
      [] ln.prefix \in LoadMTLPropertyPrefixes ->
            [mats EXCEPT ![cur] = LoadMTLSetField(@, ln)]
      [] OTHER -> mats

\* currentMaterial after one line (line 526)
MTLCurrent(cur, ln) == IF ln.prefix = "newmtl" THEN NameKey(ln.name) ELSE cur

\* parseMTL, lines 150-159
ParseMTLDefaults ==
    [ Ns |-> Num(0),
      Ka |-> <<Num(1), Num(1), Num(1)>>,
      Kd |-> <<Num(1), Num(1), Num(1)>>,
      Ks |-> <<Frac(5, 10), Frac(5, 10), Frac(5, 10)>>,
      Ke |-> <<Num(0), Num(0), Num(0)>>,
      Ni |-> Num(1),
      d |-> Num(1),
      illum |-> Num(2) ]

ParseMTLPropertyPrefixes == {"Ns", "Ka", "Kd", "Ks", "Ke", "Ni", "d", "illum"}

\* parts.slice(1, 4).map(Number)
Slice3(args) == [i \in 1..(IF Len(args) < 3 THEN Len(args) ELSE 3) |-> Num(args[i])]

\* if (currentMaterial): null and undefined are falsy, a name is not
Truthy(cur) == cur \notin {Null, "undefined"}

ParseMTLSetField(rec, ln) ==
    CASE ln.prefix = "Ns" -> [rec EXCEPT !.Ns = ParseFloatAt(ln.args, 1)]
      [] ln.prefix = "Ka" -> [rec EXCEPT !.Ka = Slice3(ln.args)]
      [] ln.prefix = "Kd" -> [rec EXCEPT !.Kd = Slice3(ln.args)]
      [] ln.prefix = "Ks" -> [rec EXCEPT !.Ks = Slice3(ln.args)]
      [] ln.prefix = "Ke" -> [rec EXCEPT !.Ke = Slice3(ln.args)]
      [] ln.prefix = "Ni" -> [rec EXCEPT !.Ni = ParseFloatAt(ln.args, 1)]
      [] ln.prefix = "d" -> [rec EXCEPT !.d = ParseFloatAt(ln.args, 1)]
      [] ln.prefix = "illum" -> [rec EXCEPT !.illum = ParseFloatAt(ln.args, 1)]
      [] OTHER -> rec

\* materials after one line of parseMTL (lines 147-185)
ParseMTLMaterials(mats, cur, ln) ==
    CASE ln.prefix = "newmtl" ->
            [k \in DOMAIN mats \cup {NameKey(ln.name)} |->
                IF k = NameKey(ln.name) THEN ParseMTLDefaults ELSE mats[k]]
      [] ln.prefix \in ParseMTLPropertyPrefixes /\ Truthy(cur) ->
            [mats EXCEPT ![cur] = ParseMTLSetField(@, ln)]
      [] OTHER -> mats

\* An object with no property: materials = {}, materialGroups = {}.
EmptyObject == [k \in {} |-> 0]

(***************************************************************************)
(* parseOBJ (lines 72-135).                                                 *)
(***************************************************************************)
\* vn and vt lines, which parseOBJ keeps
AttributeLines ==
    { Line("vn", "", <<0, 0, 1>>, <<>>),
      Line("vt", "", <<0, 1>>, <<>>) }

\* lines 87, 90: parseFloat(parts[1]), parseFloat(parts[2]), parseFloat(parts[3])
Push3(array, args) ==
    array \o <<ParseFloatAt(args, 1), ParseFloatAt(args, 2), ParseFloatAt(args, 3)>>

\* line 93
Push2(array, args) == array \o <<ParseFloatAt(args, 1), ParseFloatAt(args, 2)>>

\* lines 100-105: the k-th number of every token that has one, less 1
RECURSIVE FaceColumn(_, _, _)
FaceColumn(refs, k, i) ==
    IF i > Len(refs) THEN <<>>
    ELSE (IF Len(refs[i]) >= k THEN <<refs[i][k] - 1>> ELSE <<>>)
         \o FaceColumn(refs, k, i + 1)

\* array[i] (0-based) of a list of indices: undefined past its end
At(array, i) == IF i < Len(array) THEN array[i + 1] ELSE Undefined

\* lines 108-109: the triangles pushed by the loop from i on
RECURSIVE ParseOBJTriangulate(_, _)
ParseOBJTriangulate(fv, i) ==
    IF i < Len(fv) - 1
    THEN <<fv[1], fv[i + 1], fv[i + 2]>> \o ParseOBJTriangulate(fv, i + 1)
    ELSE <<>>

\* lines 111-121: the same rounds push three of column's entries when the
\* column is not empty; n is the number of vertices of the face
RECURSIVE ParseOBJAttrTriples(_, _, _)
ParseOBJAttrTriples(column, n, i) ==
    IF i < n - 1
    THEN (IF Len(column) > 0
          THEN <<At(column, 0), At(column, i), At(column, i + 1)>>
          ELSE <<>>)
         \o ParseOBJAttrTriples(column, n, i + 1)
    ELSE <<>>

\* the arrays of parseOBJ after one line (lines 85-124)
ParseOBJStep(p, ln) ==
    CASE ln.prefix = "v" -> [p EXCEPT !.vertices = Push3(@, ln.args)]
      [] ln.prefix = "vn" -> [p EXCEPT !.normals = Push3(@, ln.args)]
      [] ln.prefix = "vt" -> [p EXCEPT !.texCoords = Push2(@, ln.args)]
      [] ln.prefix = "f" ->
            LET fv == FaceColumn(ln.refs, 1, 1)
                ft == FaceColumn(ln.refs, 2, 1)
                fnn == FaceColumn(ln.refs, 3, 1)
            IN  [p EXCEPT
                    !.indices = @ \o ParseOBJTriangulate(fv, 1),
                    !.vertexNormalIndices = @ \o ParseOBJAttrTriples(fnn, Len(fv), 1),
                    !.vertexTexCoordIndices = @ \o ParseOBJAttrTriples(ft, Len(fv), 1)]
      [] OTHER -> p

ParseOBJEmpty ==
    [ vertices |-> <<>>, normals |-> <<>>, texCoords |-> <<>>, indices |-> <<>>,
      vertexNormalIndices |-> <<>>, vertexTexCoordIndices |-> <<>> ]

(***************************************************************************)
(* The state after construction.  main (line 754) has called loadOBJ, which *)
(* has started fetch(objUrl) and loadMTL(mtlUrl) (lines 560-563) and awaits *)
(* both; loadMTL awaits its own fetch (line 517).  The other entries stand  *)
(* at the first line of their text.                                         *)
(***************************************************************************)
InitEntry(e) ==
    /\ entry = e
    /\ objFetch = IF e = "main" THEN "pending" ELSE "idle"
    /\ mtlPc = IF e \in {"main", "loadMTL"} THEN "fetching" ELSE "idle"
    /\ loadPc = IF e = "main" THEN "awaitAll" ELSE "idle"
    /\ mainPc = IF e = "main" THEN "awaitLoad" ELSE "idle"
    /\ parsePc = IF e \in {"parseOBJ", "parseMTL"} THEN "parsing" ELSE "idle"
    /\ line = NoLine
    /\ lineCount = [v |-> 0, f |-> 0]
    /\ objKind = ""
    /\ positions = <<>>
    /\ indices = <<>>
    /\ materialIndices = <<>>
    /\ materialGroups = EmptyObject
    /\ tempNormals = EmptyObject
    /\ currentMaterial = Null
    /\ normalArray = <<>>
    /\ mtlResponse = EmptyObject
    /\ materials = EmptyObject
    /\ mtlCurrent = Null
    /\ mtlLines = <<>>
    /\ parsed = ParseOBJEmpty
    /\ buffers = FALSE
    /\ frames = 0
    /\ isDragging = FALSE
    /\ lastMouseX = 0
    /\ lastMouseY = 0
    /\ rotationX = [b |-> 0, n |-> 0]
    /\ rotationY = 0
    /\ zoomLevel = Num(5)
    /\ autoRotate = TRUE
    /\ event = ""

Init == \E e \in {"main", "parseOBJ"} : InitEntry(e)

InitMTL == \E e \in {"loadMTL", "parseMTL"} : InitEntry(e)

(***************************************************************************)
(* The fetches (lines 517-518, 560-565).                                    *)
(***************************************************************************)
loadOBJVars ==
    <<line, lineCount, objKind, positions, indices, materialIndices, materialGroups,
      tempNormals, currentMaterial, normalArray>>

mtlVars == <<materials, mtlCurrent, mtlLines>>

mainVars == <<mainPc, buffers, frames>>

\* lines 449-455; event is the input of the handlers
cameraVars == <<isDragging, lastMouseX, lastMouseY, rotationX, rotationY,
                zoomLevel, autoRotate, event>>

\* fetch(objUrl) is fulfilled with a response
ObjFetchResolve ==
    /\ objFetch = "pending"
    /\ objFetch' = "resolved"
    /\ UNCHANGED <<entry, mtlPc, loadPc, mtlResponse, parsed, parsePc>>
    /\ UNCHANGED <<loadOBJVars, mtlVars, mainVars>>
    /\ UNCHANGED cameraVars

\* fetch(objUrl) is rejected
ObjFetchReject ==
    /\ objFetch = "pending"
    /\ objFetch' = "rejected"
    /\ UNCHANGED <<entry, mtlPc, loadPc, mtlResponse, parsed, parsePc>>
    /\ UNCHANGED <<loadOBJVars, mtlVars, mainVars>>
    /\ UNCHANGED cameraVars

\* line 517: loadMTL's fetch is fulfilled; loadMTL goes on to response.text()
MtlFetchResolve ==
    /\ mtlPc = "fetching"
    /\ mtlPc' = "readingText"
    /\ UNCHANGED <<entry, objFetch, loadPc, mtlResponse, parsed, parsePc>>
    /\ UNCHANGED <<loadOBJVars, mtlVars, mainVars>>
    /\ UNCHANGED cameraVars

\* line 517: loadMTL's fetch is rejected, and with it loadMTL
MtlFetchReject ==
    /\ mtlPc = "fetching"
    /\ mtlPc' = "rejected"
    /\ UNCHANGED <<entry, objFetch, loadPc, mtlResponse, parsed, parsePc>>
    /\ UNCHANGED <<loadOBJVars, mtlVars, mainVars>>
    /\ UNCHANGED cameraVars

\* line 518: the text is there; lines 519-521 set up the loop
MtlTextResolve ==
    /\ mtlPc = "readingText"
    /\ mtlPc' = "parsing"
    /\ materials' = EmptyObject
    /\ mtlCurrent' = Null
    /\ mtlLines' = <<>>
    /\ UNCHANGED <<entry, objFetch, loadPc, mtlResponse, parsed, parsePc>>
    /\ UNCHANGED <<loadOBJVars, mainVars>>
    /\ UNCHANGED cameraVars

\* line 518: response.text() is rejected
MtlTextReject ==
    /\ mtlPc = "readingText"
    /\ mtlPc' = "rejected"
    /\ UNCHANGED <<entry, objFetch, loadPc, mtlResponse, parsed, parsePc>>
    /\ UNCHANGED <<loadOBJVars, mtlVars, mainVars>>
    /\ UNCHANGED cameraVars

(***************************************************************************)
(* loadMTL's loop (lines 522-554) and its return (line 556).                *)
(***************************************************************************)
LoadMTLInput == IF entry = "main" THEN MainMtlLines ELSE MtlLines

LoadMTLLine ==
    /\ mtlPc = "parsing"
    /\ Len(mtlLines) < MaxMtlLines
    /\ \E ln \in LoadMTLInput :
        /\ mtlLines' = Append(mtlLines, ln)
        /\ IF LoadMTLThrows(materials, mtlCurrent, ln)
           THEN /\ mtlPc' = "rejected"
                /\ UNCHANGED <<materials, mtlCurrent>>
           ELSE /\ mtlPc' = "parsing"
                /\ materials' = LoadMTLMaterials(materials, mtlCurrent, ln)
                /\ mtlCurrent' = MTLCurrent(mtlCurrent, ln)
    /\ UNCHANGED <<entry, objFetch, loadPc, mtlResponse, parsed, parsePc>>
    /\ UNCHANGED <<loadOBJVars, mainVars>>
    /\ UNCHANGED cameraVars

\* the text has no more lines: loadMTL is fulfilled with materials; its
\* other locals are not read again
LoadMTLReturn ==
    /\ mtlPc = "parsing"
    /\ mtlPc' = "resolved"
    /\ mtlCurrent' = Null
    /\ mtlLines' = <<>>
    /\ UNCHANGED <<entry, objFetch, loadPc, mtlResponse, parsed, parsePc, materials>>
    /\ UNCHANGED <<loadOBJVars, mainVars>>
    /\ UNCHANGED cameraVars

(***************************************************************************)
(* loadOBJ (lines 559-692).                                                 *)
(***************************************************************************)
\* line 560: Promise.all is fulfilled once both promises are; line 565
\* then awaits objResponse.text()
\* loadOBJ resuming as soon as the OBJ fetch is fulfilled, whatever loadMTL
\* has done
LoadOBJResumeEarly ==
    /\ loadPc = "awaitAll"
    /\ objFetch = "resolved"
    /\ loadPc' = "readingText"
    /\ mtlResponse' = materials
    /\ UNCHANGED <<entry, objFetch, mtlPc, parsed, parsePc>>
    /\ UNCHANGED <<loadOBJVars, mtlVars, mainVars>>
    /\ UNCHANGED cameraVars

LoadOBJResume ==
    /\ loadPc = "awaitAll"
    /\ objFetch = "resolved"
    /\ mtlPc = "resolved"
    /\ loadPc' = "readingText"
    /\ mtlResponse' = materials
    /\ UNCHANGED <<entry, objFetch, mtlPc, parsed, parsePc>>
    /\ UNCHANGED <<loadOBJVars, mtlVars, mainVars>>
    /\ UNCHANGED cameraVars

\* line 560: Promise.all is rejected as soon as one promise is, and the
\* await throws out of loadOBJ
LoadOBJReject ==
    /\ loadPc = "awaitAll"
    /\ objFetch = "rejected" \/ mtlPc = "rejected"
    /\ loadPc' = "failed"
    /\ UNCHANGED <<entry, objFetch, mtlPc, mtlResponse, parsed, parsePc>>
    /\ UNCHANGED <<loadOBJVars, mtlVars, mainVars>>
    /\ UNCHANGED cameraVars

\* line 565: the text is there; lines 567-576 set up the loop
ObjTextResolve ==
    /\ loadPc = "readingText"
    /\ loadPc' = "parsing"
    /\ objKind' \in ObjKinds
    /\ UNCHANGED <<entry, objFetch, mtlPc, mtlResponse, parsed, parsePc>>
    /\ UNCHANGED <<line, lineCount, positions, indices, materialIndices,
                   materialGroups, tempNormals, currentMaterial, normalArray>>
    /\ UNCHANGED <<mtlVars, mainVars>>
    /\ UNCHANGED cameraVars

\* line 565: objResponse.text() is rejected
ObjTextReject ==
    /\ loadPc = "readingText"
    /\ loadPc' = "failed"
    /\ UNCHANGED <<entry, objFetch, mtlPc, mtlResponse, parsed, parsePc>>
    /\ UNCHANGED <<loadOBJVars, mtlVars, mainVars>>
    /\ UNCHANGED cameraVars

\* The lines the text may hold next.
ObjInput ==
    (IF lineCount.v < MaxVertexLines
     THEN CASE objKind = "mesh" -> ProperVertexLines(lineCount.v + 1)
            [] objKind = "ragged" -> VertexLines(lineCount.v + 1)
            [] OTHER -> {}
     ELSE {})
    \cup (IF lineCount.f < MaxFaceLines
          THEN (IF objKind = "ragged" THEN RaggedFaceLines ELSE FaceLines)
          ELSE {})
    \cup (CASE objKind = "mesh" -> MeshUsemtlLines
             [] objKind = "groups" -> UsemtlLines
             [] OTHER -> {})
    \cup (IF objKind = "ragged" THEN {} ELSE OtherObjLines)

Counted(count, ln) ==
    CASE ln.prefix = "v" -> [count EXCEPT !.v = @ + 1]
      [] ln.prefix = "f" -> [count EXCEPT !.f = @ + 1]
      [] OTHER -> count

\* A loop that takes every line whose first token begins with v for a v
\* line.
LoadOBJLineByInitial ==
    /\ loadPc = "parsing"
    /\ \E ln \in ObjInput :
        /\ line' = ln
        /\ lineCount' = Counted(lineCount, ln)
        /\ CASE ln.prefix \in {"v", "vn", "vt"} ->
                    /\ positions' = PushPosition(positions, ln.args)
                    /\ UNCHANGED <<indices, materialIndices, materialGroups,
                                   tempNormals, currentMaterial>>
             [] ln.prefix = "usemtl" ->
                    /\ currentMaterial' = NameKey(ln.name)
                    /\ materialGroups' =
                           OpenGroup(materialGroups, NameKey(ln.name), Len(indices))
                    /\ UNCHANGED <<positions, indices, materialIndices, tempNormals>>
             [] ln.prefix = "f" ->
                    LET fv == FaceVertices(ln.refs)
                        pushed == Triangulate(fv, 1)
                    IN  /\ tempNormals' =
                               Accumulate(tempNormals, fv, 1, FaceNormal(positions, fv))
                        /\ indices' = indices \o pushed
                        /\ materialIndices' =
                               materialIndices \o [i \in 1..Len(pushed) |-> currentMaterial]
                        /\ materialGroups' =
                               CountGroup(materialGroups, currentMaterial, Len(pushed))
                        /\ UNCHANGED <<positions, currentMaterial>>
             [] OTHER ->
                    UNCHANGED <<positions, indices, materialIndices, materialGroups,
                                tempNormals, currentMaterial>>
    /\ UNCHANGED <<entry, objFetch, mtlPc, loadPc, mtlResponse, parsed, parsePc,
                   objKind, normalArray>>
    /\ UNCHANGED <<mtlVars, mainVars>>
    /\ UNCHANGED cameraVars

\* one round of the loop of lines 577-642
LoadOBJLine ==
    /\ loadPc = "parsing"
    /\ \E ln \in ObjInput :
        /\ line' = ln
        /\ lineCount' = Counted(lineCount, ln)
        /\ CASE ln.prefix = "v" ->
                    /\ positions' = PushPosition(positions, ln.args)
                    /\ UNCHANGED <<indices, materialIndices, materialGroups,
                                   tempNormals, currentMaterial>>
             [] ln.prefix = "usemtl" ->
                    /\ currentMaterial' = NameKey(ln.name)
                    /\ materialGroups' =
                           OpenGroup(materialGroups, NameKey(ln.name), Len(indices))
                    /\ UNCHANGED <<positions, indices, materialIndices, tempNormals>>
             [] ln.prefix = "f" ->
                    LET fv == FaceVertices(ln.refs)
                        pushed == Triangulate(fv, 1)
                    IN  /\ tempNormals' =
                               Accumulate(tempNormals, fv, 1, FaceNormal(positions, fv))
                        /\ indices' = indices \o pushed
                        /\ materialIndices' =
                               materialIndices \o [i \in 1..Len(pushed) |-> currentMaterial]
                        /\ materialGroups' =
                               CountGroup(materialGroups, currentMaterial, Len(pushed))
                        /\ UNCHANGED <<positions, currentMaterial>>
             [] OTHER ->
                    UNCHANGED <<positions, indices, materialIndices, materialGroups,
                                tempNormals, currentMaterial>>
    /\ UNCHANGED <<entry, objFetch, mtlPc, loadPc, mtlResponse, parsed, parsePc,
                   objKind, normalArray>>
    /\ UNCHANGED <<mtlVars, mainVars>>
    /\ UNCHANGED cameraVars

\* the text has no more lines: lines 644-691.  tempNormals is not read again.
LoadOBJFinish ==
    /\ loadPc = "parsing"
    /\ normalArray' = BuildNormals(positions, tempNormals, 0)
    /\ positions' = Rescale(positions)
    /\ loadPc' = "returned"
    /\ UNCHANGED <<entry, objFetch, mtlPc, mtlResponse, parsed, parsePc, line,
                   lineCount, objKind, indices, materialIndices, materialGroups, tempNormals,
                   currentMaterial>>
    /\ UNCHANGED <<mtlVars, mainVars>>
    /\ UNCHANGED cameraVars

(***************************************************************************)
(* main (lines 753-840).                                                    *)
(***************************************************************************)
\* lines 755-839: main goes on with the mesh, creates the buffers and calls
\* render for the first time
MainResume ==
    /\ mainPc = "awaitLoad"
    /\ loadPc = "returned"
    /\ mainPc' = "rendering"
    /\ buffers' = TRUE
    /\ frames' = 1
    /\ UNCHANGED <<entry, objFetch, mtlPc, loadPc, mtlResponse, parsed, parsePc>>
    /\ UNCHANGED <<loadOBJVars, mtlVars>>
    /\ UNCHANGED cameraVars

\* line 754: the await throws out of main
MainFail ==
    /\ mainPc = "awaitLoad"
    /\ loadPc = "failed"
    /\ mainPc' = "failed"
    /\ UNCHANGED <<entry, objFetch, mtlPc, loadPc, mtlResponse, parsed, parsePc,
                   buffers, frames>>
    /\ UNCHANGED <<loadOBJVars, mtlVars>>
    /\ UNCHANGED cameraVars

\* line 836: requestAnimationFrame calls render again
RenderFrame ==
    /\ mainPc = "rendering"
    /\ frames < MaxFrames
    /\ frames' = frames + 1
    /\ UNCHANGED <<entry, objFetch, mtlPc, loadPc, mtlResponse, parsed, parsePc,
                   mainPc, buffers>>
    /\ UNCHANGED <<loadOBJVars, mtlVars>>
    /\ UNCHANGED cameraVars

(***************************************************************************)
(* parseOBJ and parseMTL, called at lines 330-331.                          *)
(***************************************************************************)
ParseOBJInput ==
    (IF lineCount.v < MaxVertexLines
     THEN VertexLines(lineCount.v + 1) \cup AttributeLines ELSE {})
    \cup (IF lineCount.f < MaxFaceLines THEN ParseOBJFaceLines ELSE {})
    \cup MeshUsemtlLines

ParseOBJCounted(count, ln) ==
    CASE ln.prefix \in {"v", "vn", "vt"} -> [count EXCEPT !.v = @ + 1]
      [] ln.prefix = "f" -> [count EXCEPT !.f = @ + 1]
      [] OTHER -> count

\* one call of the callback of lines 81-125
ParseOBJLine ==
    /\ entry = "parseOBJ"
    /\ parsePc = "parsing"
    /\ \E ln \in ParseOBJInput :
        /\ line' = ln
        /\ lineCount' = ParseOBJCounted(lineCount, ln)
        /\ parsed' = ParseOBJStep(parsed, ln)
    /\ UNCHANGED <<entry, objFetch, mtlPc, loadPc, mtlResponse, parsePc, objKind,
                   positions, indices, materialIndices, materialGroups, tempNormals,
                   currentMaterial, normalArray>>
    /\ UNCHANGED <<mtlVars, mainVars>>
    /\ UNCHANGED cameraVars

\* lines 127-134
ParseOBJReturn ==
    /\ entry = "parseOBJ"
    /\ parsePc = "parsing"
    /\ parsePc' = "returned"
    /\ UNCHANGED <<entry, objFetch, mtlPc, loadPc, mtlResponse, parsed>>
    /\ UNCHANGED <<loadOBJVars, mtlVars, mainVars>>
    /\ UNCHANGED cameraVars

\* one call of the callback of lines 143-186
ParseMTLLine ==
    /\ entry = "parseMTL"
    /\ parsePc = "parsing"
    /\ Len(mtlLines) < MaxMtlLines
    /\ \E ln \in MtlLines :
        /\ mtlLines' = Append(mtlLines, ln)
        /\ materials' = ParseMTLMaterials(materials, mtlCurrent, ln)
        /\ mtlCurrent' = MTLCurrent(mtlCurrent, ln)
    /\ UNCHANGED <<entry, objFetch, mtlPc, loadPc, mtlResponse, parsed, parsePc>>
    /\ UNCHANGED <<loadOBJVars, mainVars>>
    /\ UNCHANGED cameraVars

\* line 188
ParseMTLReturn ==
    /\ entry = "parseMTL"
    /\ parsePc = "parsing"
    /\ parsePc' = "returned"
    /\ UNCHANGED <<entry, objFetch, mtlPc, loadPc, mtlResponse, parsed>>
    /\ UNCHANGED <<loadOBJVars, mtlVars, mainVars>>
    /\ UNCHANGED cameraVars

(***************************************************************************)
(* The specifications: Spec runs main or parseOBJ, SpecMTL runs loadMTL or  *)
(* parseMTL.                                                                *)
(***************************************************************************)
Next ==
    \/ ObjFetchResolve
    \/ ObjFetchReject
    \/ MtlFetchResolve
    \/ MtlFetchReject
    \/ MtlTextResolve
    \/ MtlTextReject
    \/ LoadMTLLine
    \/ LoadMTLReturn
    \/ LoadOBJResume
    \/ LoadOBJReject
    \/ ObjTextResolve
    \/ ObjTextReject
    \/ LoadOBJLine
    \/ LoadOBJFinish
    \/ MainResume
    \/ MainFail
    \/ RenderFrame
    \/ ParseOBJLine
    \/ ParseOBJReturn

Spec == Init /\ [][Next]_vars

NextMTL ==
    \/ MtlFetchResolve
    \/ MtlFetchReject
    \/ MtlTextResolve
    \/ MtlTextReject
    \/ LoadMTLLine
    \/ LoadMTLReturn
    \/ ParseMTLLine
    \/ ParseMTLReturn

SpecMTL == InitMTL /\ [][NextMTL]_vars

(***************************************************************************)
(* The camera (lines 449-456) and the handlers setupMouseControls registers *)
(* (lines 458-505).  Mouse coordinates are whole pixels.  rotationY is      *)
(* counted in units of rotationSpeed (0.005 rad, one pixel of travel).      *)
(* rotationX is [b, n], which stands for b * (PI / 2.2) + n * rotationSpeed  *)
(* with b in {-1, 0, 1}: a clamp leaves it as it is or makes it one of the  *)
(* two limits, and a later drag adds whole units to it.  The sums are exact: *)
(* floating-point rounding is not followed.                                 *)
(***************************************************************************)
\* event.clientX, event.clientY and event.deltaY of the events dispatched
ClientXs == {0, 300}
ClientYs == {0, 100, 400}
WheelDeltas == {-4000, 4000, 16000}

EventTypes == {"mousedown", "mouseup", "mouseleave", "mousemove", "wheel", "dblclick"}

\* the largest integer below k * 1000 * PI (3141.59..., 6283.18...)
ThousandPi(k) == CASE k = 0 -> 0 [] k = 1 -> 3141 [] k = 2 -> 6283

\* the limits -PI / 2.2 (c = -1) and PI / 2.2 (c = 1) of line 485
Limit(c) == [b |-> c, n |-> 0]

\* x <= c * (PI / 2.2): with k = c - x.b this is n * 0.005 <= k * PI / 2.2,
\* that is 11 * n <= k * 1000 * PI, between integers and a multiple of PI
LeqLimit(x, c) ==
    LET k == c - x.b
    IN  IF k >= 0 THEN 11 * x.n <= ThousandPi(k)
        ELSE 0 - 11 * x.n >= ThousandPi(0 - k) + 1

\* line 485: Math.max(-Math.PI / 2.2, Math.min(Math.PI / 2.2, rotationX))
ClampRotation(x) ==
    LET upper == IF LeqLimit(x, 1) THEN x ELSE Limit(1)
    IN  IF LeqLimit(upper, -1) THEN Limit(-1) ELSE upper

\* A clamp of the zoom from above only.
ClampZoomAbove(z) == MathMin(Num(20), z)

\* line 495: Math.max(2, Math.min(20, zoomLevel))
ClampZoom(z) == MathMax(Num(2), MathMin(Num(20), z))

\* everything but the camera
pipelineVars == <<entry, objFetch, mtlPc, loadPc, mtlResponse, parsed, parsePc,
                  loadOBJVars, mtlVars, mainVars>>

\* lines 459-464
MouseDown ==
    /\ entry = "setupMouseControls"
    /\ \E x \in ClientXs, y \in ClientYs :
        /\ lastMouseX' = x
        /\ lastMouseY' = y
    /\ isDragging' = TRUE
    /\ autoRotate' = FALSE
    /\ event' = "mousedown"
    /\ UNCHANGED <<rotationX, rotationY, zoomLevel>>
    /\ UNCHANGED pipelineVars

\* lines 466-468
MouseUp ==
    /\ entry = "setupMouseControls"
    /\ isDragging' = FALSE
    /\ event' = "mouseup"
    /\ UNCHANGED <<lastMouseX, lastMouseY, rotationX, rotationY, zoomLevel, autoRotate>>
    /\ UNCHANGED pipelineVars

\* lines 470-472
MouseLeave ==
    /\ entry = "setupMouseControls"
    /\ isDragging' = FALSE
    /\ event' = "mouseleave"
    /\ UNCHANGED <<lastMouseX, lastMouseY, rotationX, rotationY, zoomLevel, autoRotate>>
    /\ UNCHANGED pipelineVars

\* A mousemove handler that does not ask whether the mouse is dragging.
MouseMoveAlways ==
    /\ entry = "setupMouseControls"
    /\ \E x \in ClientXs, y \in ClientYs :
        /\ Abs(rotationY + (x - lastMouseX)) <= MaxRotationY
        /\ rotationY' = rotationY + (x - lastMouseX)
        /\ rotationX' =
               ClampRotation([rotationX EXCEPT !.n = @ + (y - lastMouseY)])
        /\ lastMouseX' = x
        /\ lastMouseY' = y
    /\ event' = "mousemove"
    /\ UNCHANGED <<isDragging, zoomLevel, autoRotate>>
    /\ UNCHANGED pipelineVars

\* lines 474-489; the drags followed keep rotationY within MaxRotationY
MouseMove ==
    /\ entry = "setupMouseControls"
    /\ \E x \in ClientXs, y \in ClientYs :
        IF ~isDragging
        THEN UNCHANGED <<rotationX, rotationY, lastMouseX, lastMouseY>>
        ELSE /\ Abs(rotationY + (x - lastMouseX)) <= MaxRotationY
             /\ rotationY' = rotationY + (x - lastMouseX)
             /\ rotationX' =
                    ClampRotation([rotationX EXCEPT !.n = @ + (y - lastMouseY)])
             /\ lastMouseX' = x
             /\ lastMouseY' = y
    /\ event' = "mousemove"
    /\ UNCHANGED <<isDragging, zoomLevel, autoRotate>>
    /\ UNCHANGED pipelineVars

\* lines 491-496
Wheel ==
    /\ entry = "setupMouseControls"
    /\ \E deltaY \in WheelDeltas :
        zoomLevel' = ClampZoom(JsAdd(zoomLevel, JsMul(Num(deltaY), Frac(1, 1000))))
    /\ event' = "wheel"
    /\ UNCHANGED <<isDragging, lastMouseX, lastMouseY, rotationX, rotationY, autoRotate>>
    /\ UNCHANGED pipelineVars

\* A dblclick handler that resets the view and leaves autoRotate alone.
DblClickView ==
    /\ entry = "setupMouseControls"
    /\ rotationX' = [b |-> 0, n |-> 0]
    /\ rotationY' = 0
    /\ zoomLevel' = Num(5)
    /\ event' = "dblclick"
    /\ UNCHANGED <<isDragging, lastMouseX, lastMouseY, autoRotate>>
    /\ UNCHANGED pipelineVars

\* lines 499-504
DblClick ==
    /\ entry = "setupMouseControls"
    /\ rotationX' = [b |-> 0, n |-> 0]
    /\ rotationY' = 0
    /\ zoomLevel' = Num(5)
    /\ autoRotate' = TRUE
    /\ event' = "dblclick"
    /\ UNCHANGED <<isDragging, lastMouseX, lastMouseY>>
    /\ UNCHANGED pipelineVars

\* setupMouseControls has registered the handlers (line 763)
InitCamera == InitEntry("setupMouseControls")

NextCamera ==
    \/ MouseDown
    \/ MouseUp
    \/ MouseLeave
    \/ MouseMove
    \/ Wheel
    \/ DblClick

SpecCamera == InitCamera /\ [][NextCamera]_vars

(***************************************************************************)
(* Properties.                                                              *)
(***************************************************************************)
\* a step of loadOBJ's loop that reads an f line
LoadOBJFaceStep ==
    /\ entry = "main"
    /\ loadPc = "parsing"
    /\ loadPc' = "parsing"
    /\ lineCount'.f = lineCount.f + 1

\* a token of an f line names a vertex that no v line read so far gave
RefOutOfRange(refs, vertexLines) ==
    \E i \in 1..Len(refs) : refs[i][1] - 1 < 0 \/ refs[i][1] - 1 >= vertexLines

\* C1: whenever loadOBJ reads an f line that names a vertex index outside
\* the v lines read so far, loadOBJ fails (and so returns no mesh).
C1_OutOfRangeFaceFails ==
    [][(LoadOBJFaceStep /\ RefOutOfRange(line'.refs, lineCount.v))
          => loadPc' = "failed"]_vars

\* The orders of the names of groups by startIndex.
GroupOrders(groups) ==
    LET names == DOMAIN groups
        m == Cardinality(names)
    IN  { o \in [1..m -> names] :
            /\ \A i, j \in 1..m : i # j => o[i] # o[j]
            /\ \A i \in 1..(m - 1) :
                   groups[o[i]].startIndex <= groups[o[i + 1]].startIndex }

\* In order o the ranges start at 0, each ends where the next begins, and
\* the last ends at n.
Abuts(groups, o, n) ==
    LET m == Len(o)
        end(i) == groups[o[i]].startIndex + groups[o[i]].indexCount
    IN  IF m = 0 THEN n = 0
        ELSE /\ groups[o[1]].startIndex = 0
             /\ \A i \in 1..(m - 1) : end(i) = groups[o[i + 1]].startIndex
             /\ end(m) = n

\* every index was pushed under a material: a usemtl line came before the
\* first f line that pushed a triangle
EveryIndexHasMaterial ==
    \A i \in 1..Len(materialIndices) : materialIndices[i] # Null

\* C2: when a usemtl line precedes the first f line, the material groups,
\* sorted by startIndex, partition [0, len(indices)) with no gap and no
\* overlap.
C2_GroupsPartition ==
    (entry = "main" /\ loadPc \in {"parsing", "returned"} /\ EveryIndexHasMaterial)
        => \E o \in GroupOrders(materialGroups) :
               Abuts(materialGroups, o, Len(indices))

\* C3: the normals loadOBJ returns have as many components as the positions
\* it returns.
C3_NormalsMatchPositions ==
    loadPc = "returned" => Len(normalArray) = Len(positions)

\* loadOBJ has returned a mesh whose last v line, the third, had two
\* numbers only, and which has a triangle
C3_Witness ==
    /\ loadPc = "returned"
    /\ line.prefix = "v"
    /\ Len(line.args) = 2
    /\ lineCount.v = 3
    /\ lineCount.f >= 1
    /\ indices = <<0, 1, 2>>
    /\ Len(normalArray) = 9

\* The triangles (v0, vi, vi+1), i = 1..N-2, of the N vertex indices vs, as
\* one list of 3 * (N - 2) indices; none when N < 3.
Fan(vs) ==
    [k \in 1..(3 * (Len(vs) - 2)) |->
        LET i == ((k - 1) \div 3) + 1
            r == (k - 1) % 3
        IN  IF r = 0 THEN vs[1] ELSE vs[i + r]]

\* the 0-based vertex indices an f line names
FaceIndices(refs) == [i \in 1..Len(refs) |-> refs[i][1] - 1]

\* a step of parseOBJ that reads an f line
ParseOBJFaceStep ==
    /\ entry = "parseOBJ"
    /\ parsePc = "parsing"
    /\ parsePc' = "parsing"
    /\ lineCount'.f = lineCount.f + 1

\* C4: an f line of N references appends the N - 2 triangles (v0, vi, vi+1),
\* i = 1..N-2, in that order, and nothing when N < 3, in loadOBJ and in
\* parseOBJ.
C4_FanTriangulation ==
    [][/\ LoadOBJFaceStep => indices' = indices \o Fan(FaceIndices(line'.refs))
       /\ ParseOBJFaceStep =>
              parsed'.indices = parsed.indices \o Fan(FaceIndices(line'.refs))]_vars

\* loadOBJ has read a face of four references after a face of two
C4_Witness ==
    /\ entry = "main"
    /\ loadPc = "parsing"
    /\ line.prefix = "f"
    /\ Len(line.refs) = 4
    /\ lineCount.f = 2
    /\ indices = <<0, 1, 2, 0, 2, 3>>

\* the lines of an MTL text before its first newmtl line
NoNewmtl(lines) == \A i \in 1..Len(lines) : lines[i].prefix # "newmtl"

\* C5: parsing MTL text never fails: while no newmtl line has been read, a
\* line, property lines included, is ignored by loadMTL and by parseMTL, and
\* leaves the map of materials empty.
C5_PropertyBeforeNewmtlIgnored ==
    (Len(mtlLines) > 0 /\ NoNewmtl(mtlLines))
        => (mtlPc # "rejected" /\ materials = EmptyObject)

\* the last line i in lo..hi with the prefix, 0 when there is none
LastLine(lines, lo, hi, prefix) ==
    LET at == { i \in lo..hi : lines[i].prefix = prefix }
    IN  IF at = {} THEN 0 ELSE CHOOSE i \in at : \A j \in at : j <= i

\* the numbers a property line gives
Numbers(args) == [i \in 1..Len(args) |-> Num(args[i])]
FirstNumber(args) == IF Len(args) >= 1 THEN Num(args[1]) ELSE NaN

\* The record of the material named by the newmtl line at index from: each
\* field is given by the last line for it before the next newmtl line, or is
\* the default.
ExpectedRecord(lines, from) ==
    LET later == { i \in (from + 1)..Len(lines) : lines[i].prefix = "newmtl" }
        hi == IF later = {} THEN Len(lines)
              ELSE (CHOOSE i \in later : \A j \in later : i <= j) - 1
        last(prefix) == LastLine(lines, from + 1, hi, prefix)
    IN  [ ambient |-> IF last("Ka") = 0 THEN <<Num(1), Num(1), Num(1)>>
                      ELSE Numbers(lines[last("Ka")].args),
          diffuse |-> IF last("Kd") = 0
                      THEN <<Frac(8, 10), Frac(8, 10), Frac(8, 10)>>
                      ELSE Numbers(lines[last("Kd")].args),
          specular |-> IF last("Ks") = 0
                       THEN <<Frac(5, 10), Frac(5, 10), Frac(5, 10)>>
                       ELSE Numbers(lines[last("Ks")].args),
          shininess |-> IF last("Ns") = 0 THEN Num(32)
                        ELSE FirstNumber(lines[last("Ns")].args),
          opacity |-> IF last("d") = 0 THEN Num(1)
                      ELSE FirstNumber(lines[last("d")].args),
          refractionIndex |-> IF last("Ni") = 0 THEN Undefined
                              ELSE FirstNumber(lines[last("Ni")].args) ]

\* One record per newmtl name, that of the last newmtl line with the name.
ExpectedMaterials(lines) ==
    LET newmtl == { i \in 1..Len(lines) : lines[i].prefix = "newmtl" }
        names == { NameKey(lines[i].name) : i \in newmtl }
        lastOf(n) == CHOOSE i \in newmtl :
                        /\ NameKey(lines[i].name) = n
                        /\ \A j \in newmtl : NameKey(lines[j].name) = n => j <= i
    IN  [n \in names |-> ExpectedRecord(lines, lastOf(n))]

\* C6: after loadMTL has parsed any lines, its map has one record per newmtl
\* name, and each field of a record is the value of the last property line
\* for it after the latest newmtl line of that name, or the default.
C6_RecordsFollowLastProperty ==
    (entry = "loadMTL" /\ Len(mtlLines) > 0)
        => (mtlPc = "parsing" /\ materials = ExpectedMaterials(mtlLines))

\* What loadMTL does keep of C6: as long as it has not thrown, its map is
\* the expected one.
LoadMTLRecordsUnlessThrown ==
    (entry = "loadMTL" /\ mtlPc = "parsing")
        => materials = ExpectedMaterials(mtlLines)

\* the mesh has no extent: no position, or all vertices at one point
ZeroExtent(pos) ==
    /\ Len(pos) % 3 = 0
    /\ \A i, j \in 1..Len(pos) : i % 3 = j % 3 => pos[i] = pos[j]

\* C7: loadOBJ does not return a mesh whose bounding box has zero extent on
\* every axis; it fails with a degenerate-mesh error.
C7_ZeroExtentFails ==
    [][(entry = "main" /\ loadPc = "parsing" /\ loadPc' # "parsing"
            /\ ZeroExtent(positions))
          => loadPc' = "failed"]_vars

\* C8: every normal of the returned mesh has unit length (the fallback
\* [0, 0, 1] has); stated for the normals with no NaN component, which stem
\* from faces that name a vertex no v line gave (C1).
C8_NormalsUnitOrFallback ==
    loadPc = "returned"
        => \A k \in 1..Len(normalArray) :
               \/ SumHasNaN(normalArray[k].of.sum)
               \/ /\ normalArray[k].of.unit
                  /\ ~SumIsZero(normalArray[k].of.sum)

\* C9: loadOBJ reads and parses the OBJ text only after the OBJ fetch and
\* loadMTL have both succeeded; when either fails loadOBJ has not gone past
\* its await and can only fail, and main, which can only fail after it, has
\* created no buffer and rendered no frame; buffers and frames exist only
\* for a returned mesh.
C9_ParseAfterBothFetches ==
    entry = "main" =>
        /\ loadPc \in {"readingText", "parsing", "returned"}
               => (objFetch = "resolved" /\ mtlPc = "resolved")
        /\ (objFetch = "rejected" \/ mtlPc = "rejected")
               => /\ loadPc \in {"awaitAll", "failed"}
                  /\ loadPc = "awaitAll" => ENABLED LoadOBJReject
                  /\ mainPc \in {"awaitLoad", "failed"}
                  /\ (mainPc = "awaitLoad" /\ loadPc = "failed") => ENABLED MainFail
                  /\ positions = <<>> /\ indices = <<>>
        /\ loadPc # "returned" => (~buffers /\ frames = 0 /\ mainPc # "rendering")

\* the OBJ fetch succeeded, loadMTL threw on a property line, and loadOBJ
\* and main have failed
C9_Witness ==
    /\ entry = "main"
    /\ objFetch = "resolved"
    /\ mtlPc = "rejected"
    /\ Len(mtlLines) > 0
    /\ loadPc = "failed"
    /\ mainPc = "failed"
    /\ ~buffers

\* C10: a group is created by the first usemtl line of its name, with
\* startIndex = len(indices) then and indexCount 0; afterwards its
\* startIndex never changes and its indexCount grows by the indices (three
\* a triangle) pushed while its name is the current material, and by
\* nothing otherwise; a usemtl line makes its name a group.
C10_GroupBookkeeping ==
    [][(entry = "main" /\ loadPc = "parsing" /\ loadPc' = "parsing") =>
          /\ \A n \in DOMAIN materialGroups :
                /\ n \in DOMAIN materialGroups'
                /\ materialGroups'[n].startIndex = materialGroups[n].startIndex
                /\ materialGroups'[n].indexCount =
                      materialGroups[n].indexCount
                          + (IF currentMaterial = n
                             THEN Len(indices') - Len(indices) ELSE 0)
          /\ \A n \in DOMAIN materialGroups' \ DOMAIN materialGroups :
                /\ line'.prefix = "usemtl"
                /\ n = NameKey(line'.name)
                /\ materialGroups'[n] =
                      [startIndex |-> Len(indices), indexCount |-> 0]
          /\ currentMaterial' # currentMaterial =>
                /\ line'.prefix = "usemtl"
                /\ currentMaterial' = NameKey(line'.name)
                /\ Len(indices') = Len(indices)
          /\ currentMaterial' # Null => currentMaterial' \in DOMAIN materialGroups'
          /\ (Len(indices') - Len(indices)) % 3 = 0]_vars

\* material A was selected again after B: A has two triangles, B has one
C10_Witness ==
    /\ entry = "main"
    /\ loadPc = "parsing"
    /\ currentMaterial = "A"
    /\ DOMAIN materialGroups = {"A", "B"}
    /\ materialGroups["A"] = [startIndex |-> 0, indexCount |-> 6]
    /\ materialGroups["B"] = [startIndex |-> 6, indexCount |-> 3]

\* a step of loadOBJ's loop that reads a v line
LoadOBJVertexStep ==
    /\ entry = "main"
    /\ loadPc = "parsing"
    /\ lineCount'.v = lineCount.v + 1

\* C11: a v line read by loadOBJ appends exactly 3 numbers to positions,
\* however many tokens follow the keyword, and a v line of fewer than 3
\* numbers makes loadOBJ fail instead of appending fewer.
C11_VertexAppendsThree ==
    [][LoadOBJVertexStep =>
          IF Len(line'.args) < 3
          THEN loadPc' = "failed"
          ELSE Len(positions') = Len(positions) + 3]_vars

\* a step of loadOBJ's loop that reads a line whose first token is not v,
\* usemtl or f
LoadOBJOtherStep ==
    /\ entry = "main"
    /\ loadPc = "parsing"
    /\ loadPc' = "parsing"
    /\ line'.prefix \notin {"v", "usemtl", "f"}

\* C12: a line whose first token is not v, usemtl or f (vn, vt, a comment, a
\* blank line) leaves positions, indices, the normal accumulators, the
\* material groups and the current material as they are.
C12_OtherLinesIgnored ==
    [][LoadOBJOtherStep =>
          UNCHANGED <<positions, indices, tempNormals, materialGroups,
                      currentMaterial>>]_vars

\* a vn line was read after a vertex, a material and a face, which are all
\* as they were before it
C12_Witness ==
    /\ entry = "main"
    /\ loadPc = "parsing"
    /\ line.prefix = "vn"
    /\ Len(positions) = 9
    /\ indices = <<0, 1, 2>>
    /\ currentMaterial = "A"
    /\ materialGroups["A"].indexCount = 3
    /\ DOMAIN tempNormals = {0, 1, 2}

\* the camera's zoom and vertical rotation are within their limits
ZoomInRange ==
    /\ IsFin(zoomLevel)
    /\ ~JsLess(zoomLevel, Num(2))
    /\ ~JsLess(Num(20), zoomLevel)

RotationXInRange ==
    /\ LeqLimit(rotationX, 1)
    /\ LeqLimit([b |-> 0 - rotationX.b, n |-> 0 - rotationX.n], 1)

\* C13: after any sequence of mousedown, mouseup, mouseleave, mousemove,
\* wheel and dblclick events, 2 <= zoomLevel <= 20 and
\* -PI / 2.2 <= rotationX <= PI / 2.2.
C13_CameraWithinLimits == ZoomInRange /\ RotationXInRange

\* a drag has taken rotationX to its lower limit and the wheel has taken the
\* zoom to its lower limit
C13_Witness ==
    /\ rotationX = Limit(-1)
    /\ zoomLevel = Num(2)
    /\ event = "wheel"

\* C14: isDragging is TRUE exactly when the last of the mousedown, mouseup
\* and mouseleave events was a mousedown; a mousemove while isDragging is
\* FALSE leaves rotationX, rotationY, lastMouseX, lastMouseY, zoomLevel and
\* autoRotate as they are; rotationX and rotationY change only by a mousemove
\* while dragging or by a dblclick.
C14_DraggingFollowsButtons ==
    /\ [](event = "" => ~isDragging)
    /\ [][/\ event' = "mousedown" => isDragging'
          /\ event' \in {"mouseup", "mouseleave"} => ~isDragging'
          /\ event' \in {"mousemove", "wheel", "dblclick"} =>
                 isDragging' = isDragging
          /\ (event' = "mousemove" /\ ~isDragging) =>
                 UNCHANGED <<rotationX, rotationY, lastMouseX, lastMouseY,
                             zoomLevel, autoRotate>>
          /\ (rotationX' # rotationX \/ rotationY' # rotationY) =>
                 \/ event' = "mousemove" /\ isDragging
                 \/ event' = "dblclick"]_vars

\* after a drag that turned the camera and a mouseup or mouseleave, a
\* mousemove came while isDragging was FALSE
C14_Witness ==
    /\ event = "mousemove"
    /\ ~isDragging
    /\ rotationY = 300
    /\ rotationX = [b |-> 0, n |-> 100]
    /\ lastMouseX = 300
    /\ lastMouseY = 100

\* C15: autoRotate is TRUE at first; a mousedown makes it FALSE, and mouseup,
\* mouseleave, mousemove and wheel leave it as it is; a dblclick sets
\* rotationX = 0, rotationY = 0, zoomLevel = 5 and autoRotate = TRUE and
\* leaves isDragging as it is.
C15_AutoRotateUntilDblClick ==
    /\ [](event = "" => autoRotate)
    /\ [][/\ event' = "mousedown" => ~autoRotate'
          /\ event' \in {"mouseup", "mouseleave", "mousemove", "wheel"} =>
                 autoRotate' = autoRotate
          /\ event' = "dblclick" =>
                 /\ rotationX' = [b |-> 0, n |-> 0]
                 /\ rotationY' = 0
                 /\ zoomLevel' = Num(5)
                 /\ autoRotate'
                 /\ isDragging' = isDragging]_vars

\* a dblclick came in the middle of a drag
C15_Witness ==
    /\ event = "dblclick"
    /\ isDragging
    /\ autoRotate
    /\ lastMouseY = 400
    /\ rotationY = 0
    /\ zoomLevel = Num(5)

====
